---- MODULE Spec2Model ----
(***************************************************************************)
(* Model of okkema-labs/spider, src/auth/jwt.ts: the bearer extractor      *)
(* JWT.get and the token validator JWT.validate (validateHeader,           *)
(* validatePayload, validateExpiration, validateSignature).                *)
(*                                                                         *)
(* JavaScript strings that the code inspects character by character        *)
(* (String.prototype.split, String.prototype.includes) are sequences of    *)
(* one-character strings.  Strings that are only compared are TLA+ strings.*)
(***************************************************************************)
EXTENDS Integers, Sequences, FiniteSets, TLC

VARIABLES
    jwt,            \* validate: the DecodedJsonWebToken argument
    audience,       \* validate: the expected audience argument
    issuer,         \* validate: the expected issuer argument
    pc,             \* validate: position of the call
    error,          \* validate: what the call threw (NoError while it has not)
    now,            \* validate: what Date.now() returned (NotRead before the read)
    jwks,           \* validate: the key set JWK.fetch resolved to
    keys,           \* validate: the keys Promise.all(jwks.keys.map(JWK.import)) resolved to
    key,            \* validate: what keys.find returned
    valid,          \* validate: what crypto.subtle.verify resolved to
    trace,          \* validate: the checks evaluated so far, in order
    calls,          \* validate: the external calls issued so far, in order
    authorization,  \* get: the request's Authorization header (Absent when there is none)
    getpc,          \* get: position of the call
    getResult,      \* get: what the call returned or threw
    getTrace,       \* get: the steps of JWT.get executed so far, in order
    token,          \* decode: the token string argument
    decodepc,       \* decode: position of the call
    decodeResult,   \* decode: what the call returned or threw
    worker,         \* Worker: one call of a wrapper (fetch or scheduled)
    procs           \* concurrent validate calls: the state of each call

vars == << jwt, audience, issuer, pc, error, now, jwks, keys, key, valid, trace,
           calls, authorization, getpc, getResult, getTrace, token, decodepc,
           decodeResult, worker, procs >>

validateVars == << jwt, audience, issuer, pc, error, now, jwks, keys, key, valid,
                   trace, calls >>

getVars == << authorization, getpc, getResult, getTrace >>

decodeVars == << token, decodepc, decodeResult >>

otherVars == << decodeVars, worker, procs >>

(***************************************************************************)
(* Bounds of the model.                                                    *)
(***************************************************************************)
MaxExp == 2         \* largest whole second an exp claim names
MaxNow == 2         \* largest whole second Date.now() reads
MaxKeys == 2        \* largest number of keys in a fetched key set
MaxTail == 3        \* largest number of characters after the scheme of a header
MaxCalls == 2       \* number of JWT.validate calls in flight together

(***************************************************************************)
(* Program constants.                                                      *)
(***************************************************************************)
MsPerSecond == 1000 \* Date.prototype.setUTCSeconds counts seconds, Date.now() milliseconds
Unauthorized == 401 \* the status JWT.get gives its problems

(***************************************************************************)
(* Failures.  Problem is the repository's error class; a TypeError is what *)
(* the runtime throws on a call through a missing method or property.      *)
(***************************************************************************)
NoError == [kind |-> "none", title |-> "", detail |-> ""]

Problem(title, detail) == [kind |-> "Problem", title |-> title, detail |-> detail]

ProblemWithStatus(title, detail, status) ==
    [kind |-> "Problem", title |-> title, detail |-> detail, status |-> status]

TypeError(detail) == [kind |-> "TypeError", title |-> "TypeError", detail |-> detail]

Rejection(detail) == [kind |-> "Rejection", title |-> "JWK", detail |-> detail]

(***************************************************************************)
(* JSON values of the payload fields.                                      *)
(***************************************************************************)
\* String.prototype.includes: s occurs in t as a contiguous run of characters.
StringIncludes(t, s) ==
    \E i \in 1 .. (Len(t) - Len(s) + 1) : SubSeq(t, i, i + Len(s) - 1) = s

\* Array.prototype.includes: some element of a is the value x.
ArrayIncludes(a, x) == \E i \in 1 .. Len(a) : a[i] = x

(***************************************************************************)
(* The values JSON.parse can put in payload.exp.  A number is held in      *)
(* halves of a second, so that n = 3 is the JSON number 1.5.               *)
(***************************************************************************)
ExpValues ==
    {[t |-> "absent", n |-> 0]}                               \* no exp member
    \cup {[t |-> "number", n |-> h] : h \in -2 .. (2 * MaxExp + 1)}
    \cup {[t |-> "digits", n |-> s] : s \in {0, MaxExp}}      \* "0", "2": a string of digits
    \cup {[t |-> "text", n |-> 0]}                            \* "soon": a string, no number

\* The values JSON.parse can put in payload.aud; v holds the array's elements
\* or the string's characters.
A == << "a" >>
AB == << "a", "b" >>
B == << "b" >>

AudValues ==
    {[t |-> "absent", v |-> << >>]}
    \cup {[t |-> "array", v |-> a] : a \in {<< >>, << A >>, << AB >>, << B, A >>}}
    \cup {[t |-> "string", v |-> s] : s \in {A, AB, B}}

Audiences == {A, AB}
Issuers == {"i1", "i2"}
ExpectedIssuers == {"i1"}
Typs == {"JWT", "jwt"}
Algs == {"RS256", "HS256", "none"}
Kids == {"", "k1", "k2"}

\* Date.now(): milliseconds since the epoch.
NowReadings == {s * MsPerSecond + f : s \in 0 .. MaxNow, f \in {0, MsPerSecond \div 2}}

(***************************************************************************)
(* Keys and signatures.  A public key is named by its key material; a      *)
(* signature is the material of the private key that made it and the text  *)
(* it was made over.                                                       *)
(***************************************************************************)
Materials == {"m1", "m2"}
RawHeaders == {<< "h" >>, << "h", "_" >>}
RawPayloads == {<< "p" >>}
Dot == << "." >>

\* `${header}.${payload}`
SigningInput(j) == j.raw.header \o Dot \o j.raw.payload

\* The text JSON.stringify of the decoded header and payload would encode to:
\* one fixed encoding, whatever encoding the token arrived in.
ReencodedInput(j) == << "h" >> \o Dot \o << "p" >>

SignedTexts == {h \o Dot \o p : h \in RawHeaders, p \in RawPayloads}
Signatures == [by : Materials, over : SignedTexts]

\* crypto.subtle.verify("RSASSA-PKCS1-v1_5", key, signature, data)
CryptoVerify(k, signature, data) == signature.by = k /\ signature.over = data

Tokens ==
    [decoded : [header : [typ : Typs, alg : Algs, kid : Kids],
                payload : [aud : AudValues, iss : Issuers, exp : ExpValues],
                signature : Signatures],
     raw : [header : RawHeaders, payload : RawPayloads]]

(***************************************************************************)
(* JavaScript conversions validateExpiration relies on.  A Number is       *)
(* [nan, n] with n in halves; a Date is [nan, ms], nan for an Invalid Date.*)
(***************************************************************************)
\* !exp
Falsy(exp) ==
    \/ exp.t = "absent"
    \/ exp.t = "number" /\ exp.n = 0

\* ToNumber(exp), as setUTCSeconds applies it to its argument.
ToNumber(exp) ==
    CASE exp.t = "number" -> [nan |-> FALSE, n |-> exp.n]
      [] exp.t = "digits" -> [nan |-> FALSE, n |-> 2 * exp.n]
      [] OTHER -> [nan |-> TRUE, n |-> 0]

\* ToIntegerOrInfinity: the fraction is dropped, towards zero.
ToInteger(x) == IF x.n >= 0 THEN x.n \div 2 ELSE 0 - ((0 - x.n) \div 2)

\* new Date(0)
Epoch == [nan |-> FALSE, ms |-> 0]

\* date.setUTCSeconds(exp): the seconds field of date becomes exp, whole
\* seconds only; a NaN argument leaves an Invalid Date.
SetUTCSeconds(date, exp) ==
    LET x == ToNumber(exp)
        minute == 60 * MsPerSecond
    IN  IF date.nan \/ x.nan
        THEN [nan |-> TRUE, ms |-> 0]
        ELSE [nan |-> FALSE,
              ms |-> (date.ms - (date.ms % minute)) + ToInteger(x) * MsPerSecond
                     + (date.ms % MsPerSecond)]

\* expiration < now
DateLT(d, e) == ~d.nan /\ ~e.nan /\ d.ms < e.ms

\* expiration <= now: both sides become numbers, and every comparison with
\* NaN is false.
DateLE(d, e) == ~d.nan /\ ~e.nan /\ d.ms <= e.ms

HeaderTitle == "JWT Header Validation Error"
PayloadTitle == "JWT Payload Validation Error"
ExpirationTitle == "JWT Expiration Validation Error"
SignatureTitle == "JWT Signature Validation Error"

(***************************************************************************)
(* The synchronous checks.  Each operator is the failure the function      *)
(* throws, NoError when it returns.                                        *)
(***************************************************************************)
validateExpiration(j, nowMs) ==
    LET exp == j.decoded.payload.exp
        expiration == SetUTCSeconds(Epoch, exp)
        nowDate == [nan |-> FALSE, ms |-> nowMs]
    IN  IF Falsy(exp)
        THEN Problem(ExpirationTitle, "Missing JWT expiration")
        ELSE IF DateLE(expiration, nowDate)
             THEN Problem(ExpirationTitle, "JWT is expired")
             ELSE NoError

\* aud.includes(audience): "true", "false", or "throws" when aud has no
\* includes method.
AudIncludes(aud, expected) ==
    CASE aud.t = "array" -> IF ArrayIncludes(aud.v, expected) THEN "true" ELSE "false"
      [] aud.t = "string" -> IF StringIncludes(aud.v, expected) THEN "true" ELSE "false"
      [] OTHER -> "throws"

validatePayload(j, expected, expectedIssuer, nowMs) ==
    LET aud == j.decoded.payload.aud
        iss == j.decoded.payload.iss
    IN  IF AudIncludes(aud, expected) = "throws"
        THEN TypeError("aud.includes is not a function")
        ELSE IF AudIncludes(aud, expected) = "false"
             THEN IF aud.t = "array"
                  THEN Problem(PayloadTitle, "Invalid JWT audience")
                  ELSE TypeError("aud.join is not a function")
             ELSE IF iss # expectedIssuer
                  THEN Problem(PayloadTitle, "Invalid JWT issuer")
                  ELSE validateExpiration(j, nowMs)

\* validatePayload reached Date.now()
ReadsClock(j, expected, expectedIssuer) ==
    /\ AudIncludes(j.decoded.payload.aud, expected) = "true"
    /\ j.decoded.payload.iss = expectedIssuer
    /\ ~Falsy(j.decoded.payload.exp)

\* validateHeader without its algorithm check
validateHeaderAnyAlg(j) ==
    LET h == j.decoded.header
    IN  IF h.typ # "JWT"
        THEN Problem(HeaderTitle, "Invalid JWT type")
        ELSE IF h.kid = ""
             THEN Problem(HeaderTitle, "Missing JWT key id")
             ELSE NoError

\* validateHeader with the algorithm tested before the type
validateHeaderAlgFirst(j) ==
    LET h == j.decoded.header
    IN  IF h.alg # "RS256"
        THEN Problem(HeaderTitle, "Invalid JWT algorithm")
        ELSE IF h.typ # "JWT"
             THEN Problem(HeaderTitle, "Invalid JWT type")
             ELSE IF h.kid = ""
                  THEN Problem(HeaderTitle, "Missing JWT key id")
                  ELSE NoError

validateHeader(j) ==
    LET h == j.decoded.header
    IN  IF h.typ # "JWT"
        THEN Problem(HeaderTitle, "Invalid JWT type")
        ELSE IF h.alg # "RS256"
             THEN Problem(HeaderTitle, "Invalid JWT algorithm")
             ELSE IF h.kid = ""
                  THEN Problem(HeaderTitle, "Missing JWT key id")
                  ELSE NoError

\* The checks validateHeader evaluated, in order.
HeaderChecks(j) ==
    LET h == j.decoded.header
    IN  IF h.typ # "JWT" THEN << "typ" >>
        ELSE IF h.alg # "RS256" THEN << "typ", "alg" >>
        ELSE << "typ", "alg", "kid" >>

\* The checks validatePayload evaluated, in order.
PayloadChecks(j, expected, expectedIssuer) ==
    LET p == j.decoded.payload
    IN  IF AudIncludes(p.aud, expected) # "true" THEN << "audience" >>
        ELSE IF p.iss # expectedIssuer THEN << "audience", "issuer" >>
        ELSE IF Falsy(p.exp) THEN << "audience", "issuer", "expiration-missing" >>
        ELSE << "audience", "issuer", "expiration-missing", "expired" >>

(***************************************************************************)
(* The key resolver, ./jwk: JWK.fetch(iss) resolves to a key set or        *)
(* rejects; JWK.import(raw key) resolves to {kid, key} or rejects.         *)
(***************************************************************************)
KeyIds == {"k1", "k2"}

RawKeys ==
    [kid : KeyIds, material : Materials]
    \cup {[kid |-> "k1", material |-> "malformed"]}

KeySets == UNION {[1 .. n -> RawKeys] : n \in 0 .. MaxKeys}

Importable(raw) == raw.material # "malformed"

JWKImport(raw) == [kid |-> raw.kid, key |-> raw.material]

\* What find returns when no element satisfies the predicate.
Undefined == [kid |-> "undefined", key |-> "undefined"]

\* find that returns the last element whose kid is kid
FindLast(ks, kid) ==
    IF \E i \in 1 .. Len(ks) : ks[i].kid = kid
    THEN ks[CHOOSE i \in 1 .. Len(ks) :
                /\ ks[i].kid = kid
                /\ \A k \in (i + 1) .. Len(ks) : ks[k].kid # kid]
    ELSE Undefined

\* find that falls back to the first element when no kid is kid
FindOrFirst(ks, kid) ==
    IF \E i \in 1 .. Len(ks) : ks[i].kid = kid
    THEN ks[CHOOSE i \in 1 .. Len(ks) :
                /\ ks[i].kid = kid
                /\ \A k \in 1 .. (i - 1) : ks[k].kid # kid]
    ELSE IF Len(ks) > 0 THEN ks[1] ELSE Undefined

\* keys.find((x) => x.kid === kid): the first element whose kid is kid.
Find(ks, kid) ==
    IF \E i \in 1 .. Len(ks) : ks[i].kid = kid
    THEN ks[CHOOSE i \in 1 .. Len(ks) :
                /\ ks[i].kid = kid
                /\ \A k \in 1 .. (i - 1) : ks[k].kid # kid]
    ELSE Undefined

FetchCall(iss) == [op |-> "fetch", iss |-> iss]
ImportCall(raw) == [op |-> "import", raw |-> raw]
VerifyCall(k, signature, data) ==
    [op |-> "verify", key |-> k, signature |-> signature, data |-> data]

\* verifySignature over the re-encoded header and payload
verifySignatureReencoded(j, k) == VerifyCall(k, j.decoded.signature, ReencodedInput(j))

\* verifySignature(jwt, key): the call it makes to crypto.subtle.verify.
verifySignature(j, k) == VerifyCall(k, j.decoded.signature, SigningInput(j))

NotRead == [read |-> FALSE, ms |-> 0]
NoKeySet == [resolved |-> FALSE, keys |-> << >>]

(***************************************************************************)
(* JWT.validate, one call.                                                 *)
(***************************************************************************)
InitValidate ==
    /\ jwt \in Tokens
    /\ audience \in Audiences
    /\ issuer \in ExpectedIssuers
    /\ pc = "Decoded"
    /\ error = NoError
    /\ now = NotRead
    /\ jwks = NoKeySet
    /\ keys = << >>
    /\ key = Undefined
    /\ valid = FALSE
    /\ trace = << >>
    /\ calls = << >>

\* validateHeader(jwt)
ValidateHeader ==
    /\ pc = "Decoded"
    /\ error' = validateHeader(jwt)
    /\ trace' = trace \o HeaderChecks(jwt)
    /\ pc' = IF validateHeader(jwt) = NoError THEN "HeaderChecked" ELSE "Invalid"
    /\ UNCHANGED << jwt, audience, issuer, now, jwks, keys, key, valid, calls >>
    /\ UNCHANGED getVars
    /\ UNCHANGED otherVars

\* validatePayload(jwt, audience, issuer), validateExpiration included
ValidatePayload ==
    /\ pc = "HeaderChecked"
    /\ \E nowMs \in NowReadings :
        /\ error' = validatePayload(jwt, audience, issuer, nowMs)
        /\ now' = IF ReadsClock(jwt, audience, issuer)
                  THEN [read |-> TRUE, ms |-> nowMs]
                  ELSE now
        /\ pc' = IF validatePayload(jwt, audience, issuer, nowMs) = NoError
                 THEN "PayloadChecked"
                 ELSE "Invalid"
    /\ trace' = trace \o PayloadChecks(jwt, audience, issuer)
    /\ UNCHANGED << jwt, audience, issuer, jwks, keys, key, valid, calls >>
    /\ UNCHANGED getVars
    /\ UNCHANGED otherVars

\* validateSignature started before validatePayload has run
ValidateSignatureEarly ==
    /\ pc = "HeaderChecked"
    /\ calls' = Append(calls, FetchCall(jwt.decoded.payload.iss))
    /\ pc' = "Fetching"
    /\ UNCHANGED << jwt, audience, issuer, error, now, jwks, keys, key, valid, trace >>
    /\ UNCHANGED getVars
    /\ UNCHANGED otherVars

\* validateSignature(jwt) up to its first await: JWK.fetch(iss) is issued
ValidateSignature ==
    /\ pc = "PayloadChecked"
    /\ calls' = Append(calls, FetchCall(jwt.decoded.payload.iss))
    /\ pc' = "Fetching"
    /\ UNCHANGED << jwt, audience, issuer, error, now, jwks, keys, key, valid, trace >>
    /\ UNCHANGED getVars
    /\ UNCHANGED otherVars

\* JWK.fetch resolves; jwks.keys.map(JWK.import) issues one import per key
FetchResolve ==
    /\ pc = "Fetching"
    /\ \E ks \in KeySets :
        /\ jwks' = [resolved |-> TRUE, keys |-> ks]
        /\ calls' = calls \o [i \in 1 .. Len(ks) |-> ImportCall(ks[i])]
    /\ pc' = "Importing"
    /\ UNCHANGED << jwt, audience, issuer, error, now, keys, key, valid, trace >>
    /\ UNCHANGED getVars
    /\ UNCHANGED otherVars

\* a rejected JWK.fetch answered by fetching again
FetchRejectRetry ==
    /\ pc = "Fetching"
    /\ error' = error
    /\ pc' = "PayloadChecked"
    /\ UNCHANGED << jwt, audience, issuer, now, jwks, keys, key, valid, trace, calls >>
    /\ UNCHANGED getVars
    /\ UNCHANGED otherVars

\* JWK.fetch rejects: the rejection leaves validate as it is
FetchReject ==
    /\ pc = "Fetching"
    /\ error' = Rejection("fetch")
    /\ pc' = "Invalid"
    /\ UNCHANGED << jwt, audience, issuer, now, jwks, keys, key, valid, trace, calls >>
    /\ UNCHANGED getVars
    /\ UNCHANGED otherVars

\* Promise.all resolves; keys.find picks the key; without one validateSignature
\* throws, with one it calls verifySignature
ImportResolve ==
    /\ pc = "Importing"
    /\ \A i \in 1 .. Len(jwks.keys) : Importable(jwks.keys[i])
    /\ LET imported == [i \in 1 .. Len(jwks.keys) |-> JWKImport(jwks.keys[i])]
           found == Find(imported, jwt.decoded.header.kid)
       IN  /\ keys' = imported
           /\ key' = found
           /\ trace' = Append(trace, "no-matching-key")
           /\ IF found = Undefined
              THEN /\ error' = Problem(SignatureTitle, "No matching JWK found")
                   /\ pc' = "Invalid"
                   /\ calls' = calls
              ELSE /\ error' = error
                   /\ pc' = "KeyResolved"
                   /\ calls' = Append(calls, verifySignature(jwt, found.key))
    /\ UNCHANGED << jwt, audience, issuer, now, jwks, valid >>
    /\ UNCHANGED getVars
    /\ UNCHANGED otherVars

\* Promise.all rejects as soon as one JWK.import rejects
ImportReject ==
    /\ pc = "Importing"
    /\ \E i \in 1 .. Len(jwks.keys) : ~Importable(jwks.keys[i])
    /\ error' = Rejection("import")
    /\ pc' = "Invalid"
    /\ UNCHANGED << jwt, audience, issuer, now, jwks, keys, key, valid, trace, calls >>
    /\ UNCHANGED getVars
    /\ UNCHANGED otherVars

\* crypto.subtle.verify resolves
VerifyResolve ==
    /\ pc = "KeyResolved"
    /\ LET call == calls[Len(calls)]
       IN  valid' = CryptoVerify(call.key, call.signature, call.data)
    /\ pc' = "SignatureChecked"
    /\ UNCHANGED << jwt, audience, issuer, error, now, jwks, keys, key, trace, calls >>
    /\ UNCHANGED getVars
    /\ UNCHANGED otherVars

\* if (!valid) throw ...; otherwise validateSignature and validate return
SignatureResult ==
    /\ pc = "SignatureChecked"
    /\ trace' = Append(trace, "invalid-signature")
    /\ IF valid
       THEN /\ error' = error
            /\ pc' = "Valid"
       ELSE /\ error' = Problem(SignatureTitle, "Invalid JWT signature")
            /\ pc' = "Invalid"
    /\ UNCHANGED << jwt, audience, issuer, now, jwks, keys, key, valid, calls >>
    /\ UNCHANGED getVars
    /\ UNCHANGED otherVars

\* No JWT.get call is in progress.
GetIdle ==
    /\ authorization = [present |-> FALSE, value |-> << >>]
    /\ getpc = "idle"
    /\ getResult = [kind |-> "none", value |-> [defined |-> FALSE, s |-> << >>],
                    error |-> NoError]
    /\ getTrace = << >>

\* No JWT.decode call is in progress.
DecodeIdle ==
    /\ token = << >>
    /\ decodepc = "idle"
    /\ decodeResult = [kind |-> "none"]

\* No Worker wrapper is running.
WorkerIdle == worker = [pc |-> "idle"]

\* No concurrent validate calls are in flight.
ConcIdle == procs = << >>

Init == InitValidate /\ GetIdle /\ DecodeIdle /\ WorkerIdle /\ ConcIdle

Next ==
    \/ ValidateHeader
    \/ ValidatePayload
    \/ ValidateSignature
    \/ FetchResolve
    \/ FetchReject
    \/ ImportResolve
    \/ ImportReject
    \/ VerifyResolve
    \/ SignatureResult

Spec == Init /\ [][Next]_vars

(***************************************************************************)
(* JWT.get, one call.  request.headers.get("Authorization") is null when   *)
(* the request has no such header, the header's characters otherwise.      *)
(***************************************************************************)
Bearer == << "B", "e", "a", "r", "e", "r" >>
Space == " "

Schemes == {<< >>, Bearer, << "b", "e", "a", "r", "e", "r" >>, << "B", "a", "s", "i", "c" >>}
TailChars == {Space, "a", "b"}
Tails == UNION {[1 .. n -> TailChars] : n \in 0 .. MaxTail}

Headers ==
    {[present |-> FALSE, value |-> << >>]}
    \cup {[present |-> TRUE, value |-> s \o t] : s \in Schemes, t \in Tails}

\* The index of the first space of s, 0 when it has none.
FirstSpace(s) ==
    IF \E i \in 1 .. Len(s) : s[i] = Space
    THEN CHOOSE i \in 1 .. Len(s) : s[i] = Space /\ \A k \in 1 .. (i - 1) : s[k] # Space
    ELSE 0

\* header.split(" "): the runs of characters between the spaces, empty runs
\* included; a string without a space is its only part.
RECURSIVE Split(_)
Split(s) ==
    IF FirstSpace(s) = 0
    THEN << s >>
    ELSE << SubSeq(s, 1, FirstSpace(s) - 1) >> \o Split(SubSeq(s, FirstSpace(s) + 1, Len(s)))

\* A value of a destructured variable: undefined when the array is too short.
UndefinedValue == [defined |-> FALSE, s |-> << >>]
Defined(s) == [defined |-> TRUE, s |-> s]

\* [type, token] = parts: the first two elements, the rest dropped; an array
\* is iterable, so the destructuring never throws.
Destructure(parts) ==
    [type |-> IF Len(parts) >= 1 THEN Defined(parts[1]) ELSE UndefinedValue,
     token |-> IF Len(parts) >= 2 THEN Defined(parts[2]) ELSE UndefinedValue]

GetTitle == "JWT Error"

NoResult == [kind |-> "none", value |-> UndefinedValue, error |-> NoError]
Returns(v) == [kind |-> "return", value |-> v, error |-> NoError]
Throws(e) == [kind |-> "throw", value |-> UndefinedValue, error |-> e]

\* JWT.get without its test of the header being there: split is called on null
getWithoutHeaderTest(header) ==
    IF ~header.present
    THEN Throws(TypeError("Cannot read properties of null (reading 'split')"))
    ELSE LET d == Destructure(Split(header.value))
         IN  IF d.type # Defined(Bearer)
             THEN Throws(ProblemWithStatus(GetTitle, "Expected 'Bearer' token.",
                                           Unauthorized))
             ELSE Returns(d.token)

get(header) ==
    IF ~header.present \/ header.value = << >>
    THEN Throws(ProblemWithStatus(GetTitle, "Missing 'Authorization' header.",
                                  Unauthorized))
    ELSE LET d == Destructure(Split(header.value))
         IN  IF d.type # Defined(Bearer)
             THEN Throws(ProblemWithStatus(GetTitle, "Expected 'Bearer' token.",
                                           Unauthorized))
             ELSE Returns(d.token)

\* The steps JWT.get executed: reading the header, splitting it, comparing
\* the scheme.
GetSteps(header) ==
    IF ~header.present \/ header.value = << >>
    THEN << "header" >>
    ELSE << "header", "split", "scheme" >>

InitGet ==
    /\ authorization \in Headers
    /\ getpc = "called"
    /\ getResult = NoResult
    /\ getTrace = << >>

Get ==
    /\ getpc = "called"
    /\ getResult' = get(authorization)
    /\ getTrace' = GetSteps(authorization)
    /\ getpc' = "done"
    /\ UNCHANGED authorization
    /\ UNCHANGED validateVars
    /\ UNCHANGED otherVars

\* No JWT.validate call is in progress.
ValidateIdle ==
    /\ jwt = CHOOSE j \in Tokens : TRUE
    /\ audience = A
    /\ issuer = "i1"
    /\ pc = "Idle"
    /\ error = NoError
    /\ now = NotRead
    /\ jwks = NoKeySet
    /\ keys = << >>
    /\ key = Undefined
    /\ valid = FALSE
    /\ trace = << >>
    /\ calls = << >>

GetInit == InitGet /\ ValidateIdle /\ DecodeIdle /\ WorkerIdle /\ ConcIdle

NextGet == Get

SpecGet == GetInit /\ [][NextGet]_vars

(***************************************************************************)
(* Vocabulary of the properties.                                           *)
(***************************************************************************)
FetchIssued == \E i \in 1 .. Len(calls) : calls[i].op = "fetch"
VerifyIssued == \E i \in 1 .. Len(calls) : calls[i].op = "verify"
Finished == pc \in {"Valid", "Invalid"}

HeaderOK ==
    /\ jwt.decoded.header.typ = "JWT"
    /\ jwt.decoded.header.alg = "RS256"
    /\ jwt.decoded.header.kid # ""

SyncChecks ==
    << "typ", "alg", "kid", "audience", "issuer", "expiration-missing", "expired" >>

SyncFailure ==
    \/ error.kind = "TypeError"
    \/ error.kind = "Problem" /\ error.title \in {HeaderTitle, PayloadTitle, ExpirationTitle}

(***************************************************************************)
(* C1: in every execution of JWT.validate the key-set fetch is issued only *)
(* after the header checks and all payload checks (audience, issuer,       *)
(* expiration) have been evaluated and have passed; a call that failed a   *)
(* header or payload check has issued no fetch, and no other call either.  *)
(***************************************************************************)
C1_FetchAfterChecks ==
    /\ FetchIssued =>
         /\ Len(trace) >= Len(SyncChecks)
         /\ SubSeq(trace, 1, Len(SyncChecks)) = SyncChecks
         /\ HeaderOK
         /\ jwt.decoded.payload.iss = issuer
         /\ now.read
         /\ validatePayload(jwt, audience, issuer, now.ms) = NoError
         /\ ~SyncFailure
    /\ SyncFailure => calls = << >>

C1_Witness ==
    /\ pc = "Fetching"
    /\ calls = << FetchCall(jwt.decoded.payload.iss) >>
    /\ trace = SyncChecks

(***************************************************************************)
(* C2: a token whose header alg is not exactly "RS256" ("none" included)   *)
(* never makes JWT.validate succeed: the call fails in validateHeader with *)
(* a header validation error, before any call to the key resolver or to    *)
(* signature verification, whatever the signature, payload or key set.     *)
(***************************************************************************)
C2_AlgNotRS256Fails ==
    jwt.decoded.header.alg # "RS256" =>
        /\ pc \in {"Decoded", "Invalid"}
        /\ calls = << >>
        /\ pc = "Invalid" => error.kind = "Problem" /\ error.title = HeaderTitle

C2_Witness ==
    /\ jwt.decoded.header.alg = "none"
    /\ jwt.decoded.header.typ = "JWT"
    /\ jwt.decoded.header.kid = "k1"
    /\ pc = "Invalid"
    /\ error = Problem(HeaderTitle, "Invalid JWT algorithm")

(***************************************************************************)
(* C3: JWT.validate succeeds only if the key set was fetched for the       *)
(* token's iss, the key used is the import of a key of that set whose kid  *)
(* equals the header's kid, and verification of the token's signature with *)
(* that key over exactly raw.header + "." + raw.payload returned true; a   *)
(* false verification result always ends in "Invalid JWT signature".       *)
(***************************************************************************)
C3_SuccessNeedsVerifiedSignature ==
    /\ pc = "Valid" =>
         /\ error = NoError
         /\ calls[1] = FetchCall(jwt.decoded.payload.iss)
         /\ \E i \in 1 .. Len(jwks.keys) :
                /\ jwks.keys[i].kid = jwt.decoded.header.kid
                /\ key = JWKImport(jwks.keys[i])
         /\ calls[Len(calls)] =
                VerifyCall(key.key, jwt.decoded.signature,
                           jwt.raw.header \o << "." >> \o jwt.raw.payload)
         /\ valid
         /\ jwt.decoded.signature.by = key.key
         /\ jwt.decoded.signature.over = jwt.raw.header \o << "." >> \o jwt.raw.payload
    /\ (Finished /\ VerifyIssued /\ ~valid) =>
         /\ pc = "Invalid"
         /\ error = Problem(SignatureTitle, "Invalid JWT signature")

C3_Witness ==
    /\ pc = "Valid"
    /\ jwt.raw.header = << "h", "_" >>
    /\ Len(jwks.keys) = 2
    /\ key = JWKImport(jwks.keys[2])

(***************************************************************************)
(* What the properties mean by a matching audience and by exp as whole     *)
(* seconds.                                                                *)
(***************************************************************************)
PastSyncChecks == pc \notin {"Decoded", "HeaderChecked"}

\* expected is one of the token's audiences: an element of the aud array, or
\* the whole of a single-string aud.
ExactMember(aud, expected) ==
    \/ aud.t = "array" /\ \E i \in 1 .. Len(aud.v) : aud.v[i] = expected
    \/ aud.t = "string" /\ aud.v = expected

HasSeconds(exp) == exp.t \in {"number", "digits"}

WholeSeconds(exp) ==
    IF exp.t = "digits" THEN exp.n
    ELSE IF exp.n >= 0 THEN exp.n \div 2 ELSE 0 - ((0 - exp.n) \div 2)

ZeroOrAbsent(exp) == exp.t = "absent" \/ (exp.t = "number" /\ exp.n = 0)

NowSeconds == now.ms \div MsPerSecond

AllImportable == \A i \in 1 .. Len(jwks.keys) : jwks.keys[i].material # "malformed"

OriginalText == jwt.raw.header \o << "." >> \o jwt.raw.payload

(***************************************************************************)
(* C4 (as claimed): for a token with a valid header and whatever JSON      *)
(* value in aud, JWT.validate fails at the audience check, before any call *)
(* to the key resolver, unless the expected audience is exactly one of the *)
(* token's audiences; a substring match is no match.  Any failure thrown   *)
(* there is taken for the claim's "invalid audience".                      *)
(***************************************************************************)
C4_Original ==
    (PastSyncChecks /\ HeaderOK /\ ~ExactMember(jwt.decoded.payload.aud, audience)) =>
        /\ pc = "Invalid"
        /\ trace[Len(trace)] = "audience"
        /\ calls = << >>

C6_Original ==
    LET exp == jwt.decoded.payload.exp
    IN  pc = "Valid" =>
            /\ ~ZeroOrAbsent(exp)
            /\ HasSeconds(exp)
            /\ now.read
            /\ WholeSeconds(exp) > NowSeconds

(***************************************************************************)
(* C7.  The token of the claim: typ "JWT", alg "RS256", non-empty kid,     *)
(* the expected audience among its audiences, the expected issuer, exp in  *)
(* the future, every key of the fetched set imported.                      *)
(***************************************************************************)
WellFormedInTime ==
    /\ HeaderOK
    /\ ExactMember(jwt.decoded.payload.aud, audience)
    /\ jwt.decoded.payload.iss = issuer
    /\ HasSeconds(jwt.decoded.payload.exp)
    /\ now.read
    /\ WholeSeconds(jwt.decoded.payload.exp) > NowSeconds
    /\ jwks.resolved
    /\ AllImportable

SignedBy(i) ==
    /\ jwks.keys[i].kid = jwt.decoded.header.kid
    /\ jwt.decoded.signature.by = jwks.keys[i].material
    /\ jwt.decoded.signature.over = OriginalText

Succeeds ==
    /\ error = NoError
    /\ pc # "Invalid"
    /\ pc = "Valid" \/ ENABLED (ImportResolve \/ VerifyResolve \/ SignatureResult)

(***************************************************************************)
(* C7 (as claimed): such a token, signed by a key whose kid appears in the *)
(* issuer's key set, makes JWT.validate complete without a failure.        *)
(***************************************************************************)
C7_Original ==
    (WellFormedInTime /\ \E i \in 1 .. Len(jwks.keys) : SignedBy(i)) => Succeeds

(***************************************************************************)
(* C7 (amended): such a token, signed by the first key of the fetched set  *)
(* whose kid equals the token's kid, makes JWT.validate complete without a *)
(* failure.                                                                *)
(***************************************************************************)
C7_SignedByFirstMatchSucceeds ==
    ( /\ WellFormedInTime
      /\ \E i \in 1 .. Len(jwks.keys) :
            /\ SignedBy(i)
            /\ \A k \in 1 .. (i - 1) : jwks.keys[k].kid # jwt.decoded.header.kid )
    => Succeeds

C7_Witness ==
    /\ pc = "Valid"
    /\ WellFormedInTime
    /\ Len(jwks.keys) = 2
    /\ SignedBy(1)
    /\ jwks.keys[2].kid = jwt.decoded.header.kid
    /\ jwks.keys[2].material # jwks.keys[1].material

(***************************************************************************)
(* C8 (as claimed): when the fetch succeeded and no key of the fetched set *)
(* has the token's kid, JWT.validate fails with "No matching JWK found"    *)
(* and signature verification is never attempted.                          *)
(***************************************************************************)
NoListedKid == \A i \in 1 .. Len(jwks.keys) : jwks.keys[i].kid # jwt.decoded.header.kid

PastImport == pc \in {"KeyResolved", "SignatureChecked", "Valid", "Invalid"}

C8_Original ==
    (PastImport /\ jwks.resolved /\ NoListedKid) =>
        /\ pc = "Invalid"
        /\ error = Problem(SignatureTitle, "No matching JWK found")
        /\ ~VerifyIssued

(***************************************************************************)
(* C8 (amended): when the fetch succeeded and no key of the fetched set    *)
(* has the token's kid, JWT.validate fails and signature verification is   *)
(* never attempted; the failure is "No matching JWK found" when every key  *)
(* import succeeded, and the import's rejection otherwise.                 *)
(***************************************************************************)
C8_NoMatchingKeyFails ==
    (PastImport /\ jwks.resolved /\ NoListedKid) =>
        /\ pc = "Invalid"
        /\ ~VerifyIssued
        /\ error = IF AllImportable
                   THEN Problem(SignatureTitle, "No matching JWK found")
                   ELSE Rejection("import")

C8_Witness ==
    /\ pc = "Invalid"
    /\ jwks.resolved
    /\ Len(jwks.keys) = 2
    /\ NoListedKid
    /\ error = Problem(SignatureTitle, "No matching JWK found")

(***************************************************************************)
(* Vocabulary of the properties of JWT.get.                                *)
(***************************************************************************)
Spaces(s) == Cardinality({i \in 1 .. Len(s) : s[i] = " "})

\* The header's characters before its first space; all of them without one.
SchemeOf(s) ==
    IF Spaces(s) = 0 THEN s
    ELSE SubSeq(s, 1, (CHOOSE i \in 1 .. Len(s) :
                          s[i] = " " /\ \A k \in 1 .. (i - 1) : s[k] # " ") - 1)

GetDone == getpc = "done" /\ authorization.present /\ authorization.value # << >>

(***************************************************************************)
(* C9 (as claimed): JWT.get rejects every Authorization header that does   *)
(* not split on a single space into exactly two parts, a scheme and a      *)
(* value: a header without a space ("Bearer") or with more than one space  *)
(* ("Bearer a b") makes it throw a problem of status 401, it returns no    *)
(* token for it.                                                           *)
(***************************************************************************)
C9_Original ==
    (GetDone /\ Spaces(authorization.value) # 1) =>
        /\ getResult.kind = "throw"
        /\ getResult.error.kind = "Problem"
        /\ getResult.error.status = 401

(***************************************************************************)
(* C10 (as claimed): JWT.get throws "Expected 'Bearer' token." with status *)
(* 401 unless the scheme is exactly "Bearer"; when it returns, "Bearer "   *)
(* followed by the returned string is the Authorization header.            *)
(***************************************************************************)
C10_Original ==
    GetDone =>
        /\ SchemeOf(authorization.value) # << "B", "e", "a", "r", "e", "r" >> =>
             getResult = Throws(ProblemWithStatus(GetTitle, "Expected 'Bearer' token.", 401))
        /\ getResult.kind = "return" =>
             /\ getResult.value.defined
             /\ << "B", "e", "a", "r", "e", "r", " " >> \o getResult.value.s
                    = authorization.value

(***************************************************************************)
(* C11: whenever the request has no Authorization header, JWT.get throws   *)
(* the problem "Missing 'Authorization' header." with status 401, and it   *)
(* has done nothing but read the header: no split, no scheme comparison.   *)
(***************************************************************************)
C11_MissingHeaderFails ==
    (getpc = "done" /\ ~authorization.present) =>
        /\ getResult.kind = "throw"
        /\ getResult.error.kind = "Problem"
        /\ getResult.error.title = "JWT Error"
        /\ getResult.error.detail = "Missing 'Authorization' header."
        /\ getResult.error.status = 401
        /\ getTrace = << "header" >>

C11_Witness ==
    /\ getpc = "done"
    /\ ~authorization.present
    /\ getResult.kind = "throw"

(***************************************************************************)
(* JWT.decode, one call.  A token is a string of characters; its segments  *)
(* are drawn from a pool that holds an empty segment, the base64url text   *)
(* of a JSON object ("e30" is "{}"), base64 text of 1, 2 and 4 characters  *)
(* that is no JSON, and text outside the base64 alphabet.                  *)
(***************************************************************************)
MaxSegments == 4    \* largest number of "."-separated segments of a token

E30 == << "e", "3", "0" >>

SegmentPool ==
    {<< >>, E30, << "s" >>, << "s", "s" >>, << "s", "s", "s", "s" >>, << "!", "!" >>}

RECURSIVE Join(_)
\* The segments with a "." between each two.
Join(segs) ==
    IF Len(segs) = 1 THEN segs[1] ELSE segs[1] \o << "." >> \o Join(Tail(segs))

TokenStrings == {Join(segs) : segs \in UNION {[1 .. n -> SegmentPool] : n \in 1 .. MaxSegments}}

\* The index of the first "." of s, 0 when it has none.
FirstDot(s) ==
    IF \E i \in 1 .. Len(s) : s[i] = "."
    THEN CHOOSE i \in 1 .. Len(s) : s[i] = "." /\ \A k \in 1 .. (i - 1) : s[k] # "."
    ELSE 0

\* token.split("."): the runs of characters between the dots, empty runs
\* included.
RECURSIVE SplitDots(_)
SplitDots(s) ==
    IF FirstDot(s) = 0
    THEN << s >>
    ELSE << SubSeq(s, 1, FirstDot(s) - 1) >> \o SplitDots(SubSeq(s, FirstDot(s) + 1, Len(s)))

\* const [header, payload, signature] = parts: the first three elements, the
\* rest dropped; undefined where the array is too short.
DestructureToken(parts) ==
    [header |-> IF Len(parts) >= 1 THEN Defined(parts[1]) ELSE UndefinedValue,
     payload |-> IF Len(parts) >= 2 THEN Defined(parts[2]) ELSE UndefinedValue,
     signature |-> IF Len(parts) >= 3 THEN Defined(parts[3]) ELSE UndefinedValue]

\* The base64 and base64url alphabets, as far as the pool uses them.
Base64Chars == {"e", "3", "0", "s"}

InAlphabet(s) == \A i \in 1 .. Len(s) : s[i] \in Base64Chars

\* A thrown value, by the name of its class.
Thrown(name) == [kind |-> name, title |-> name, detail |-> ""]

Ok(v) == [ok |-> TRUE, value |-> v, error |-> NoError]
Fail(e) == [ok |-> FALSE, value |-> << >>, error |-> e]

\* JSON.parse(urlSafeDecodeBase64(segment)): the codec throws on undefined
\* and on text outside its alphabet, JSON.parse on text that is no JSON.
ParseSegment(seg) ==
    IF ~seg.defined THEN Fail(Thrown("TypeError"))
    ELSE IF ~InAlphabet(seg.s) THEN Fail(Thrown("InvalidCharacterError"))
    ELSE IF seg.s = E30 THEN Ok("{}")
    ELSE Fail(Thrown("SyntaxError"))

SignatureDecodeTitle == "JWT Signature Decode Error"
DecodeTitle == "JWT Decode Error"

\* decodeSignature(signature).  The two padding statements change nothing;
\* atob takes unpadded text and throws on text outside the alphabet; the
\* bytes it returns are no base64url text, so the second decoding throws
\* and the bytes are returned as they are.
decodeSignature(signature) ==
    IF ~signature.defined THEN Fail(Thrown("TypeError"))
    ELSE IF Len(signature.s) % 4 = 1
         THEN Fail(Problem(SignatureDecodeTitle, "Invalid JWT signature"))
         ELSE IF ~InAlphabet(signature.s)
              THEN Fail(Thrown("InvalidCharacterError"))
              ELSE Ok([atob |-> signature.s])

\* new Problem({title: "JWT Decode Error", detail: `Unable to decode JWT: ${error}`})
DecodeProblem(cause) ==
    [kind |-> "Problem", title |-> DecodeTitle, detail |-> "Unable to decode JWT",
     cause |-> cause]

\* JWT.decode that also throws on a payload without exp
decodeCheckingExpiration(t) ==
    LET d == DestructureToken(SplitDots(t))
        header == ParseSegment(d.header)
        payload == ParseSegment(d.payload)
        signature == decodeSignature(d.signature)
    IN  IF ~header.ok THEN Throws(DecodeProblem(header.error))
        ELSE IF ~payload.ok THEN Throws(DecodeProblem(payload.error))
        ELSE IF ~signature.ok THEN Throws(DecodeProblem(signature.error))
        ELSE Throws(Problem(ExpirationTitle, "Missing JWT expiration"))

\* JWT.decode(token): the object literal is evaluated in order, and whatever
\* is thrown on the way is caught and replaced by the decode problem.
decode(t) ==
    LET d == DestructureToken(SplitDots(t))
        header == ParseSegment(d.header)
        payload == ParseSegment(d.payload)
        signature == decodeSignature(d.signature)
    IN  IF ~header.ok THEN Throws(DecodeProblem(header.error))
        ELSE IF ~payload.ok THEN Throws(DecodeProblem(payload.error))
        ELSE IF ~signature.ok THEN Throws(DecodeProblem(signature.error))
        ELSE Returns([decoded |-> [header |-> header.value,
                                   payload |-> payload.value,
                                   signature |-> signature.value],
                      raw |-> [header |-> d.header.s,
                               payload |-> d.payload.s,
                               signature |-> d.signature.s]])

InitDecode ==
    /\ token \in TokenStrings
    /\ decodepc = "called"
    /\ decodeResult = [kind |-> "none"]

Decode ==
    /\ decodepc = "called"
    /\ decodeResult' = decode(token)
    /\ decodepc' = "done"
    /\ UNCHANGED token
    /\ UNCHANGED << validateVars, getVars, worker, procs >>

DecodeInit == InitDecode /\ ValidateIdle /\ GetIdle /\ WorkerIdle /\ ConcIdle

NextDecode == Decode

SpecDecode == DecodeInit /\ [][NextDecode]_vars

(***************************************************************************)
(* Vocabulary of the properties of JWT.decode.                             *)
(***************************************************************************)
Dots(s) == Cardinality({i \in 1 .. Len(s) : s[i] = "."})

DecodeDone == decodepc = "done"

DecodeReturned == decodepc = "done" /\ decodeResult.kind = "return"

\* The characters of s after its last ".".
LastSegment(s) ==
    LET dots == {i \in 1 .. Len(s) : s[i] = "."}
        last == CHOOSE i \in dots : \A k \in dots : k <= i
    IN  IF dots = {} THEN s ELSE SubSeq(s, last + 1, Len(s))

(***************************************************************************)
(* C12 (as claimed): JWT.decode throws the decode problem for every token  *)
(* that does not split on "." into exactly three segments; a token of      *)
(* fewer or of more than three segments is never returned decoded.         *)
(***************************************************************************)
C12_Original ==
    (DecodeDone /\ Dots(token) # 2) =>
        /\ decodeResult.kind = "throw"
        /\ decodeResult.error.title = "JWT Decode Error"

(***************************************************************************)
(* C13 (as claimed): for every token JWT.decode returns decoded, the three *)
(* raw segments are non-empty and raw.header + "." + raw.payload + "." +   *)
(* raw.signature is the token.                                             *)
(***************************************************************************)
C13_Original ==
    DecodeReturned =>
        LET raw == decodeResult.value.raw
        IN  /\ raw.header # << >>
            /\ raw.payload # << >>
            /\ raw.signature # << >>
            /\ raw.header \o << "." >> \o raw.payload \o << "." >> \o raw.signature = token

(***************************************************************************)
(* C14 (as claimed): when the length of the signature segment of a         *)
(* three-segment token with a decodable header and payload leaves 1 modulo *)
(* 4, the failure that reaches the caller of JWT.decode has the title      *)
(* "JWT Signature Decode Error".                                           *)
(***************************************************************************)
C14_Original ==
    ( /\ DecodeDone
      /\ Dots(token) = 2
      /\ Len(token) >= 8
      /\ SubSeq(token, 1, 8) = << "e", "3", "0", ".", "e", "3", "0", "." >>
      /\ Len(LastSegment(token)) % 4 = 1 )
    => /\ decodeResult.kind = "throw"
       /\ decodeResult.error.title = "JWT Signature Decode Error"

(***************************************************************************)
(* C15: JWT.decode is one synchronous step that issues no call to the key  *)
(* resolver or to signature verification and starts no validation; what it *)
(* throws is never a payload, expiration or signature validation problem   *)
(* (nor a header validation problem).                                      *)
(***************************************************************************)
C15_DecodeOnlyDecodes ==
    /\ decodepc \in {"called", "done"}
    /\ calls = << >>
    /\ pc = "Idle"
    /\ DecodeDone =>
         /\ decodeResult.kind \in {"return", "throw"}
         /\ decodeResult.error.title \notin
                {HeaderTitle, PayloadTitle, ExpirationTitle, SignatureTitle}

C15_Witness ==
    /\ DecodeReturned
    /\ token = << "e", "3", "0", ".", "e", "3", "0", ".", "s", "s" >>
    /\ calls = << >>

(***************************************************************************)
(* One JWT.validate call as a record, and the checks of the validator as   *)
(* predicates of such a record.                                            *)
(***************************************************************************)
ThisCall ==
    [jwt |-> jwt, audience |-> audience, issuer |-> issuer, pc |-> pc, error |-> error,
     now |-> now, jwks |-> jwks, keys |-> keys, key |-> key, valid |-> valid,
     trace |-> trace, calls |-> calls]

CheckOrder ==
    << "typ", "alg", "kid", "audience", "issuer", "expiration-missing", "expired",
       "no-matching-key", "invalid-signature" >>

\* The first key of the fetched set with the token's kid signed the token.
FirstMatchVerifies(p) ==
    \E i \in 1 .. Len(p.jwks.keys) :
        /\ p.jwks.keys[i].kid = p.jwt.decoded.header.kid
        /\ \A k \in 1 .. (i - 1) : p.jwks.keys[k].kid # p.jwt.decoded.header.kid
        /\ p.jwt.decoded.signature.by = p.jwks.keys[i].material
        /\ p.jwt.decoded.signature.over
               = p.jwt.raw.header \o << "." >> \o p.jwt.raw.payload

\* The check fails for the call, as the code tests it.
CheckFails(p, check) ==
    LET h == p.jwt.decoded.header
        pl == p.jwt.decoded.payload
    IN  CASE check = "typ" -> h.typ # "JWT"
          [] check = "alg" -> h.alg # "RS256"
          [] check = "kid" -> h.kid = ""
          [] check = "audience" -> AudIncludes(pl.aud, p.audience) # "true"
          [] check = "issuer" -> pl.iss # p.issuer
          [] check = "expiration-missing" -> Falsy(pl.exp)
          [] check = "expired" ->
                 DateLE(SetUTCSeconds(Epoch, pl.exp), [nan |-> FALSE, ms |-> p.now.ms])
          [] check = "no-matching-key" ->
                 \A i \in 1 .. Len(p.jwks.keys) : p.jwks.keys[i].kid # h.kid
          [] check = "invalid-signature" -> ~FirstMatchVerifies(p)

\* The failures the check surfaces.
FailuresOf(check) ==
    CASE check = "typ" -> {Problem(HeaderTitle, "Invalid JWT type")}
      [] check = "alg" -> {Problem(HeaderTitle, "Invalid JWT algorithm")}
      [] check = "kid" -> {Problem(HeaderTitle, "Missing JWT key id")}
      [] check = "audience" -> {Problem(PayloadTitle, "Invalid JWT audience"),
                                TypeError("aud.includes is not a function"),
                                TypeError("aud.join is not a function")}
      [] check = "issuer" -> {Problem(PayloadTitle, "Invalid JWT issuer")}
      [] check = "expiration-missing" -> {Problem(ExpirationTitle, "Missing JWT expiration")}
      [] check = "expired" -> {Problem(ExpirationTitle, "JWT is expired")}
      [] check = "no-matching-key" -> {Problem(SignatureTitle, "No matching JWK found")}
      [] check = "invalid-signature" -> {Problem(SignatureTitle, "Invalid JWT signature")}

\* The call evaluated the checks in the fixed order, every check before the
\* last evaluated one passed, and a failure of the validator's own is the
\* failure of the last evaluated check, which fails.
FirstFailureSurfaced(p) ==
    /\ Len(p.trace) <= Len(CheckOrder)
    /\ p.trace = SubSeq(CheckOrder, 1, Len(p.trace))
    /\ \A i \in 1 .. (Len(p.trace) - 1) : ~CheckFails(p, p.trace[i])
    /\ (p.pc = "Invalid" /\ p.error.kind # "Rejection") =>
         /\ Len(p.trace) >= 1
         /\ CheckFails(p, p.trace[Len(p.trace)])
         /\ p.error \in FailuresOf(p.trace[Len(p.trace)])
    /\ (p.pc = "Invalid" /\ p.error.kind = "Rejection") =>
         /\ Len(p.trace) = 7
         /\ ~CheckFails(p, p.trace[7])
    /\ p.pc = "Valid" =>
         /\ p.trace = CheckOrder
         /\ ~CheckFails(p, "invalid-signature")
         /\ p.error = NoError
    /\ p.pc \notin {"Valid", "Invalid"} =>
         /\ p.error = NoError
         /\ Len(p.trace) >= 1 => ~CheckFails(p, p.trace[Len(p.trace)])

(***************************************************************************)
(* C16: JWT.validate evaluates its checks in the order typ, alg, kid,      *)
(* audience, issuer, expiration-missing, expired, no-matching-key,         *)
(* invalid-signature; the failure it surfaces is that of the earliest      *)
(* failing check (every check before it passed) and no check after it is   *)
(* evaluated.                                                              *)
(***************************************************************************)
C16_FirstFailingCheckReported == FirstFailureSurfaced(ThisCall)

C16_Witness ==
    /\ pc = "Invalid"
    /\ jwt.decoded.header.typ = "jwt"
    /\ jwt.decoded.header.alg = "none"
    /\ jwt.decoded.header.kid = ""
    /\ jwt.decoded.payload.iss # issuer
    /\ trace = << "typ" >>
    /\ error = Problem(HeaderTitle, "Invalid JWT type")

(***************************************************************************)
(* C17: a JWT.validate call only moves forward through Decoded,            *)
(* HeaderChecked, PayloadChecked, (fetching, importing) KeyResolved,       *)
(* SignatureChecked to Valid, or from any of them to Invalid; Valid and    *)
(* Invalid are left by no step; at most one key-set fetch is ever issued;  *)
(* a rejected fetch or import ends the call Invalid.                       *)
(***************************************************************************)
Rank(state) ==
    CASE state = "Decoded" -> 0
      [] state = "HeaderChecked" -> 1
      [] state = "PayloadChecked" -> 2
      [] state = "Fetching" -> 3
      [] state = "Importing" -> 4
      [] state = "KeyResolved" -> 5
      [] state = "SignatureChecked" -> 6
      [] state = "Valid" -> 7
      [] state = "Invalid" -> 7

Fetches(log) == Cardinality({i \in 1 .. Len(log) : log[i].op = "fetch"})

C17_ForwardOnly ==
    [][ /\ pc \notin {"Valid", "Invalid"}
        /\ pc' = "Invalid" \/ Rank(pc') = Rank(pc) + 1
        /\ Fetches(calls') <= 1
        /\ Fetches(calls') >= Fetches(calls)
        /\ error # NoError => pc = "Invalid"
        /\ error'.kind = "Rejection" => pc' = "Invalid"
        /\ pc' = "Valid" => error' = NoError ]_vars

C17_Witness ==
    /\ pc = "Invalid"
    /\ error = Rejection("import")
    /\ Fetches(calls) = 1

(***************************************************************************)
(* Several JWT.validate calls in flight.  procs[c] is the state of call c: *)
(* its arguments, its locals and the promise it is suspended on.  A step   *)
(* is what one call runs between two awaits; the event loop runs one such  *)
(* step at a time.  overlap records that the call took a step while        *)
(* another call was suspended.                                             *)
(***************************************************************************)
ConcTokens ==
    {j \in Tokens :
        /\ j.decoded.header.typ = "JWT"
        /\ j.decoded.header.alg = "RS256"
        /\ j.decoded.header.kid \in KeyIds
        /\ j.decoded.payload.aud = [t |-> "array", v |-> << A >>]
        /\ j.decoded.payload.iss = "i1"
        /\ j.decoded.payload.exp = [t |-> "number", n |-> 2 * MaxExp]
        /\ j.raw.header = << "h" >>
        /\ j.decoded.signature.over = SigningInput(j)}

ConcNow == {0, MaxNow * MsPerSecond}

ConcKeySets ==
    {<< >>} \cup {<< k >> : k \in {r \in RawKeys : r.kid = "k1"}}

NewCall(j, expected, expectedIssuer) ==
    [jwt |-> j, audience |-> expected, issuer |-> expectedIssuer, pc |-> "Decoded",
     error |-> NoError, now |-> NotRead, jwks |-> NoKeySet, keys |-> << >>,
     key |-> Undefined, valid |-> FALSE, calls |-> << >>, overlap |-> FALSE]

Suspended(p) == p.pc \in {"Fetching", "Importing", "KeyResolved"}

\* validate(jwt, audience, issuer) up to its first await: validateHeader,
\* validatePayload, and validateSignature as far as JWK.fetch(iss)
Call(ps, c, nowMs) ==
    LET p == ps[c]
        header == validateHeader(p.jwt)
        payload == validatePayload(p.jwt, p.audience, p.issuer, nowMs)
        read == IF ReadsClock(p.jwt, p.audience, p.issuer)
                THEN [read |-> TRUE, ms |-> nowMs]
                ELSE p.now
    IN  IF header # NoError
        THEN [p EXCEPT !.error = header, !.pc = "Invalid"]
        ELSE IF payload # NoError
             THEN [p EXCEPT !.error = payload, !.pc = "Invalid", !.now = read]
             ELSE [p EXCEPT !.now = read, !.pc = "Fetching",
                            !.calls = Append(@, FetchCall(p.jwt.decoded.payload.iss))]

\* const jwks = await JWK.fetch(iss), resolved with ks; the imports are issued
FetchResolved(ps, c, ks) ==
    [ps[c] EXCEPT !.jwks = [resolved |-> TRUE, keys |-> ks],
                  !.calls = @ \o [i \in 1 .. Len(ks) |-> ImportCall(ks[i])],
                  !.pc = "Importing"]

\* await JWK.fetch(iss) rejected
FetchRejected(ps, c) ==
    [ps[c] EXCEPT !.error = Rejection("fetch"), !.pc = "Invalid"]

\* the imported keys kept in one place for all calls: those of call 1
ImportResolvedShared(ps, c) ==
    LET p == ps[c]
        imported == [i \in 1 .. Len(ps[1].jwks.keys) |-> JWKImport(ps[1].jwks.keys[i])]
        found == Find(imported, p.jwt.decoded.header.kid)
    IN  IF found = Undefined
        THEN [p EXCEPT !.keys = imported, !.key = found, !.pc = "Invalid",
                       !.error = Problem(SignatureTitle, "No matching JWK found")]
        ELSE [p EXCEPT !.keys = imported, !.key = found, !.pc = "KeyResolved",
                       !.calls = Append(@, verifySignature(p.jwt, found.key))]

\* const keys = await Promise.all(...) resolved; keys.find; verifySignature called
ImportResolved(ps, c) ==
    LET p == ps[c]
        imported == [i \in 1 .. Len(p.jwks.keys) |-> JWKImport(p.jwks.keys[i])]
        found == Find(imported, p.jwt.decoded.header.kid)
    IN  IF found = Undefined
        THEN [p EXCEPT !.keys = imported, !.key = found, !.pc = "Invalid",
                       !.error = Problem(SignatureTitle, "No matching JWK found")]
        ELSE [p EXCEPT !.keys = imported, !.key = found, !.pc = "KeyResolved",
                       !.calls = Append(@, verifySignature(p.jwt, found.key))]

\* await Promise.all(...) rejected
ImportRejected(ps, c) ==
    [ps[c] EXCEPT !.error = Rejection("import"), !.pc = "Invalid"]

\* const valid = await verifySignature(jwt, key) resolved; if (!valid) throw
VerifyResolved(ps, c) ==
    LET p == ps[c]
        call == p.calls[Len(p.calls)]
        ok == CryptoVerify(call.key, call.signature, call.data)
    IN  IF ok
        THEN [p EXCEPT !.valid = ok, !.pc = "Valid"]
        ELSE [p EXCEPT !.valid = ok, !.pc = "Invalid",
                       !.error = Problem(SignatureTitle, "Invalid JWT signature")]

\* The event loop runs the step of call c that leaves it as q.
Resume(c, q) ==
    /\ procs' = [procs EXCEPT
                   ![c] = [q EXCEPT !.overlap =
                              @ \/ \E d \in DOMAIN procs \ {c} : Suspended(procs[d])]]
    /\ UNCHANGED << validateVars, getVars, decodeVars, worker >>

InitConc ==
    procs \in [1 .. MaxCalls ->
                 {NewCall(j, a, i) : j \in ConcTokens, a \in {A}, i \in ExpectedIssuers}]

ConcCall ==
    \E c \in DOMAIN procs, nowMs \in ConcNow :
        /\ procs[c].pc = "Decoded"
        /\ Resume(c, Call(procs, c, nowMs))

ConcFetchResolve ==
    \E c \in DOMAIN procs, ks \in ConcKeySets :
        /\ procs[c].pc = "Fetching"
        /\ Resume(c, FetchResolved(procs, c, ks))

ConcFetchReject ==
    \E c \in DOMAIN procs :
        /\ procs[c].pc = "Fetching"
        /\ Resume(c, FetchRejected(procs, c))

ConcImportResolve ==
    \E c \in DOMAIN procs :
        /\ procs[c].pc = "Importing"
        /\ \A i \in 1 .. Len(procs[c].jwks.keys) : Importable(procs[c].jwks.keys[i])
        /\ Resume(c, ImportResolved(procs, c))

ConcImportReject ==
    \E c \in DOMAIN procs :
        /\ procs[c].pc = "Importing"
        /\ \E i \in 1 .. Len(procs[c].jwks.keys) : ~Importable(procs[c].jwks.keys[i])
        /\ Resume(c, ImportRejected(procs, c))

ConcVerifyResolve ==
    \E c \in DOMAIN procs :
        /\ procs[c].pc = "KeyResolved"
        /\ Resume(c, VerifyResolved(procs, c))

ConcInit == InitConc /\ ValidateIdle /\ GetIdle /\ DecodeIdle /\ WorkerIdle

NextConc ==
    \/ ConcCall
    \/ ConcFetchResolve
    \/ ConcFetchReject
    \/ ConcImportResolve
    \/ ConcImportReject
    \/ ConcVerifyResolve

SpecConc == ConcInit /\ [][NextConc]_vars

\* The failure (NoError for success) of a call that runs alone on the call's
\* token, audience, issuer, clock reading and key-set answer.
Alone(p) ==
    LET imported == [i \in 1 .. Len(p.jwks.keys) |-> JWKImport(p.jwks.keys[i])]
        found == Find(imported, p.jwt.decoded.header.kid)
    IN  IF validateHeader(p.jwt) # NoError
        THEN validateHeader(p.jwt)
        ELSE IF validatePayload(p.jwt, p.audience, p.issuer, p.now.ms) # NoError
        THEN validatePayload(p.jwt, p.audience, p.issuer, p.now.ms)
        ELSE IF ~p.jwks.resolved
        THEN Rejection("fetch")
        ELSE IF \E i \in 1 .. Len(p.jwks.keys) : ~Importable(p.jwks.keys[i])
        THEN Rejection("import")
        ELSE IF found = Undefined
        THEN Problem(SignatureTitle, "No matching JWK found")
        ELSE IF ~CryptoVerify(found.key, p.jwt.decoded.signature, SigningInput(p.jwt))
        THEN Problem(SignatureTitle, "Invalid JWT signature")
        ELSE NoError

Done(p) == p.pc \in {"Valid", "Invalid"}

(***************************************************************************)
(* C18: with several JWT.validate calls interleaving at their awaits, a    *)
(* step of one call changes nothing of any other call, no step changes a   *)
(* call's arguments, and every finished call has the outcome of a call     *)
(* that runs alone on its token, audience, issuer and resolver answers.    *)
(***************************************************************************)
C18_CallsDoNotInterfere ==
    [][ /\ \E c \in DOMAIN procs : \A d \in DOMAIN procs \ {c} : procs'[d] = procs[d]
        /\ \A c \in DOMAIN procs :
              /\ procs'[c].jwt = procs[c].jwt
              /\ procs'[c].audience = procs[c].audience
              /\ procs'[c].issuer = procs[c].issuer
              /\ Done(procs[c]) => procs'[c] = procs[c]
              /\ Done(procs'[c]) =>
                    /\ procs'[c].error = Alone(procs'[c])
                    /\ procs'[c].pc = "Valid" <=> Alone(procs'[c]) = NoError ]_vars

C18_Witness ==
    /\ procs # << >>
    /\ procs[1].overlap /\ procs[2].overlap
    /\ procs[1].jwt = procs[2].jwt
    /\ procs[1].pc = "Valid"
    /\ procs[2].pc = "Invalid"
    /\ procs[2].error = Problem(SignatureTitle, "Invalid JWT signature")

(***************************************************************************)
(* Worker(init), src/core/worker.ts: one call of worker.fetch or of        *)
(* worker.scheduled.  init.fetch / init.scheduled and init.logger are      *)
(* optional, and so is the context argument.  The handler's outcome is an  *)
(* input: what it returns, or the value it throws or rejects with.         *)
(***************************************************************************)
InternalServerError == 500

Entries == {"fetch", "scheduled"}

Responses == [status : {200, 404}, body : {"ok"}]

\* The values a handler throws: a Problem, an Error, or undefined
\* (throw undefined, a promise rejected without a reason).
Nothing == [kind |-> "undefined", title |-> "", detail |-> ""]
PlainError(message) == [kind |-> "Error", title |-> "Error", detail |-> message]

ThrownValues ==
    {ProblemWithStatus("Unauthorized", "Missing Authorization header", Unauthorized),
     ProblemWithStatus("Forbidden", "Invalid JWT audience", 403),
     PlainError("boom"),
     TypeError("x is not a function"),
     Nothing}

Outcomes ==
    {[kind |-> "absent"]}
    \cup {[kind |-> "returns", response |-> r] : r \in Responses}
    \cup {[kind |-> "throws", error |-> e] : e \in ThrownValues}

\* error.response of a Problem
ProblemResponse(thrown) == [status |-> thrown.status, body |-> thrown.title]

\* new Response(error.message, { status: 500 })
ErrorResponse(thrown) == [status |-> InternalServerError, body |-> thrown.detail]

Pending == [kind |-> "pending"]
Resolves(v) == [kind |-> "resolves", value |-> v]
Rejects(e) == [kind |-> "rejects", error |-> e]
Void == [status |-> 0, body |-> "undefined"]

\* What calling the handler gives: init.fetch(...) on an init without fetch
\* throws a TypeError before anything is awaited.
HandlerFailure(w) ==
    IF w.handler.kind = "absent"
    THEN IF w.entry = "fetch"
         THEN TypeError("init.fetch is not a function")
         ELSE TypeError("init.scheduled is not a function")
    ELSE w.handler.error

\* if (init.logger) context.waitUntil(init.logger.error(...)): the call's
\* function, context.waitUntil, is read before the argument is evaluated, so
\* without a context the TypeError comes before logger.error is called.
LogFailure(w) ==
    IF ~w.logger
    THEN [raised |-> NoError, w |-> w]
    ELSE IF ~w.context
         THEN [raised |-> TypeError("context is undefined"), w |-> w]
         ELSE [raised |-> NoError,
               w |-> [w EXCEPT !.logged = @ + 1, !.waitUntil = @ + 1, !.log = "pending"]]

\* catch (error) { ... } of fetch
fetchCatch(w, thrown) ==
    LET logged == LogFailure(w)
    IN  IF logged.raised # NoError
        THEN [logged.w EXCEPT !.pc = "done", !.result = Rejects(logged.raised)]
        ELSE IF thrown.kind = "Problem"
        THEN [logged.w EXCEPT !.pc = "done", !.result = Resolves(ProblemResponse(thrown))]
        ELSE IF thrown = Nothing
        THEN [logged.w EXCEPT !.pc = "done",
                              !.result = Rejects(TypeError("error is undefined"))]
        ELSE [logged.w EXCEPT !.pc = "done", !.result = Resolves(ErrorResponse(thrown))]

\* catch (error) { ... } of scheduled
scheduledCatch(w, thrown) ==
    LET logged == LogFailure(w)
    IN  IF logged.raised # NoError
        THEN [logged.w EXCEPT !.pc = "done", !.result = Rejects(logged.raised)]
        ELSE [logged.w EXCEPT !.pc = "done", !.result = Rejects(thrown)]

Catch(w, thrown) ==
    IF w.entry = "fetch" THEN fetchCatch(w, thrown) ELSE scheduledCatch(w, thrown)

InitWorker ==
    worker \in {[pc |-> "called", entry |-> t, logger |-> l, context |-> c, handler |-> h,
                 result |-> Pending, logged |-> 0, waitUntil |-> 0, log |-> "none"] :
                    t \in Entries, l \in BOOLEAN, c \in BOOLEAN, h \in Outcomes}

\* the wrapper is called and calls the handler: await init.fetch(request,
\* environment), await init.scheduled(event, environment)
CallHandler ==
    /\ worker.pc = "called"
    /\ worker' = IF worker.handler.kind = "absent"
                 THEN Catch(worker, HandlerFailure(worker))
                 ELSE [worker EXCEPT !.pc = "awaiting"]
    /\ UNCHANGED << validateVars, getVars, decodeVars, procs >>

\* the handler's promise resolves
HandlerResolve ==
    /\ worker.pc = "awaiting"
    /\ worker.handler.kind = "returns"
    /\ worker' = [worker EXCEPT
                    !.pc = "done",
                    !.result = IF worker.entry = "fetch"
                               THEN Resolves(worker.handler.response)
                               ELSE Resolves(Void)]
    /\ UNCHANGED << validateVars, getVars, decodeVars, procs >>

\* the handler throws, or its promise rejects
HandlerReject ==
    /\ worker.pc = "awaiting"
    /\ worker.handler.kind = "throws"
    /\ worker' = Catch(worker, HandlerFailure(worker))
    /\ UNCHANGED << validateVars, getVars, decodeVars, procs >>

\* the promise of logger.error settles, in its own time
LogResolve ==
    /\ worker.log = "pending"
    /\ worker' = [worker EXCEPT !.log = "resolved"]
    /\ UNCHANGED << validateVars, getVars, decodeVars, procs >>

LogReject ==
    /\ worker.log = "pending"
    /\ worker' = [worker EXCEPT !.log = "rejected"]
    /\ UNCHANGED << validateVars, getVars, decodeVars, procs >>

WorkerInit == InitWorker /\ ValidateIdle /\ GetIdle /\ DecodeIdle /\ ConcIdle

NextWorker ==
    \/ CallHandler
    \/ HandlerResolve
    \/ HandlerReject
    \/ LogResolve
    \/ LogReject

SpecWorker == WorkerInit /\ [][NextWorker]_vars

WorkerDone == worker.pc = "done"
HandlerFailed == worker.handler.kind \in {"absent", "throws"}

(***************************************************************************)
(* C19: the fetch wrapper, called with a handler configured, always        *)
(* resolves to a Response: the handler's response on success, the          *)
(* Problem's response when the handler throws a Problem, a status-500      *)
(* response when it throws anything else; with or without a logger and an  *)
(* execution context.                                                      *)
(***************************************************************************)
C19_Original ==
    (worker.pc = "done" /\ worker.entry = "fetch" /\ worker.handler.kind # "absent") =>
        /\ worker.result.kind = "resolves"
        /\ worker.handler.kind = "returns" =>
              worker.result.value = worker.handler.response
        /\ (worker.handler.kind = "throws" /\ worker.handler.error.kind = "Problem") =>
              worker.result.value = ProblemResponse(worker.handler.error)
        /\ (worker.handler.kind = "throws" /\ worker.handler.error.kind # "Problem") =>
              worker.result.value.status = InternalServerError

(***************************************************************************)
(* C20: in both wrappers logger.error is called once when the handler      *)
(* fails and a logger is configured, and not at all otherwise; the         *)
(* scheduled wrapper rejects with the handler's own error; the log's       *)
(* promise is still pending when the wrapper finishes.                     *)
(***************************************************************************)
C20_Original ==
    /\ worker.pc = "idle" \/ worker.pc = "done" \/ worker.logged = 0
    /\ (worker.pc = "done" /\ worker.handler.kind # "absent") =>
        /\ worker.logged = IF worker.logger /\ HandlerFailed THEN 1 ELSE 0
        /\ (worker.entry = "scheduled" /\ HandlerFailed) =>
              worker.result = Rejects(HandlerFailure(worker))

====
